---- MODULE Spec2Model ----
(***************************************************************************)
(* Model of the price tracker: src/tracker.py (main, run_price_checks,     *)
(* check_price, the products table), with the collaborators it calls.      *)
(*                                                                         *)
(* Reading of the source:                                                  *)
(*  - logging calls change no modelled state and are left out (the name    *)
(*    logger is taken to be bound to a logger).                            *)
(*  - tracker.py imports logging, sys, time, yaml, schedule, sqlite3,      *)
(*    Path, datetime, config, scraper, alert_utils (lines 8-21) and never  *)
(*    imports threading: evaluating threading.Thread at line 202 raises    *)
(*    NameError, an Exception, which run_price_checks catches at line 226. *)
(*  - scraper.fetch_html, called at line 154, is not defined in            *)
(*    src/scraper.py; it is modelled from the Page Fetcher contract.       *)
(*  - Python None is modelled by None (numbers) and NoStr (strings).       *)
(***************************************************************************)
EXTENDS Integers, Sequences, FiniteSets, TLC

(* ------------------------------ bounds -------------------------------- *)
\* longest products list drawn from the configuration
MaxItems == 2
\* the clock read by datetime.now() saturates here
MaxClock == 1
\* longest raw price text given to clean_price_string
MaxTextLen == 4

(* --------------------------- value domains ---------------------------- *)
\* Python None where a number is expected
None == -1
\* Python None / empty string where a string is expected
NoStr == ""

Urls == {"A", "B"}
Prices == {90, 95, 100, 120}
Targets == {None, 0, 100}
Intervals == {-1, 0, 60}

\* one entry of config_data['products'] (name_selector is optional and left out)
AllItemConfigs ==
  [url : Urls \cup {NoStr}, name : {"hint"}, target_price : Targets,
   price_selector : {NoStr, "sel"}, name_selector : {NoStr}]

Defects(item) ==
  (IF item.url = NoStr THEN 1 ELSE 0)
  + (IF item.target_price \in {None, 0} THEN 1 ELSE 0)
  + (IF item.price_selector = NoStr THEN 1 ELSE 0)

\* the entries drawn: complete ones for each url, and ones with a single
\* field absent (or a zero target)
ItemConfigs ==
  {item \in AllItemConfigs :
     Defects(item) = 0 \/ (Defects(item) = 1 /\ item.url \in {"A", NoStr})}

\* one row of the products table
Rows ==
  [url : Urls, name : {"hint", "page"}, target_price : Targets \ {None},
   last_price : Prices, last_check_timestamp : 0..(MaxClock + 1)]

ProductLists == UNION {[1..n -> ItemConfigs] : n \in 0..MaxItems}

VARIABLES
  config_data,     \* the loaded configuration: products, schedule_interval_minutes
  db_connection,   \* "none" | "open" | "closed"
  store,           \* the rows of table products
  clock,           \* last value read from datetime.now()
  pc,              \* position of main
  idx,             \* index of the next product of the running cycle
  chk,             \* what the last check_price call received and did
  cyc,             \* what the check_price calls of the running cycle did, in short
  run,             \* the checks made so far, while they follow the five-cycle scenario
  price_str,       \* the raw price text handed to clean_price_string
  cleaned_price    \* what clean_price_string returned for it

text_vars == <<price_str, cleaned_price>>

vars == <<config_data, db_connection, store, clock, pc, idx, chk, cyc, run,
          price_str, cleaned_price>>

(* --------------------------- the store -------------------------------- *)
\* SELECT ... WHERE url = ?; fetchone(): the matching rows, none on an error
get_product_from_db(st, conn, url, read_ok) ==
  IF conn # "open" \/ ~read_ok THEN {} ELSE {r \in st : r.url = url}

\* db_data[2] if db_data and db_data[2] is not None else None
LastPriceOf(db_data) ==
  IF db_data = {} THEN None ELSE (CHOOSE r \in db_data : TRUE).last_price

\* plain INSERT that leaves an existing row of the url in place
update_product_in_db_NoConflictClause(st, conn, url, name, target_price, current_price, timestamp, write_ok) ==
  IF conn # "open" \/ ~write_ok THEN st
  ELSE st \cup {[url |-> url, name |-> name, target_price |-> target_price,
                 last_price |-> current_price, last_check_timestamp |-> timestamp]}

\* INSERT ... ON CONFLICT(url) DO UPDATE SET ...; commit
update_product_in_db(st, conn, url, name, target_price, current_price, timestamp, write_ok) ==
  IF conn # "open" \/ ~write_ok THEN st
  ELSE {r \in st : r.url # url}
         \cup {[url |-> url, name |-> name, target_price |-> target_price,
                last_price |-> current_price, last_check_timestamp |-> timestamp]}

(* ------------------------- check_price pieces ------------------------- *)
\* a guard that forgets the price_selector
MissingConfig_NoSelectorTest(item) ==
  item.url = NoStr \/ item.target_price = None \/ item.target_price = 0

\* not url or not target_price or not price_selector
MissingConfig(item) ==
  \/ item.url = NoStr
  \/ item.target_price = None \/ item.target_price = 0
  \/ item.price_selector = NoStr

\* scraper.fetch_html(url, user_agent, delay): the markup, or nothing on a
\* failure; the pacing delay is waited inside the call
fetch_html == {NoStr, "html"}

\* scraper.parse_price(html, price_selector): the price of the page, or None
parse_price == Prices \cup {None}

\* if not html
FetchFailed(html) == html = NoStr

\* a check that goes on without a parsed price
ParseFailed_Never(current_price) == FALSE

\* if current_price is None
ParseFailed(current_price) == current_price = None

\* scraper.parse_product_name: None without a selector, else the text or None
ParsedNames(name_selector) == IF name_selector = NoStr THEN {NoStr} ELSE {NoStr, "page"}

\* parsed_name if parsed_name else name_config
DisplayName(parsed_name, name_config) ==
  IF parsed_name # NoStr THEN parsed_name ELSE name_config

\* the inclusive comparisons
AlertNeeded_Inclusive(current_price, target_price, last_price) ==
  current_price <= target_price /\ (last_price = None \/ current_price <= last_price)

\* current_price < target_price and (last_price is None or current_price < last_price)
AlertNeeded(current_price, target_price, last_price) ==
  current_price < target_price /\ (last_price = None \/ current_price < last_price)

(* ------------------------------ main pieces --------------------------- *)
\* a one-shot mode: leave after the first cycle when the interval is not positive
AfterInitialCycle_OneShot(interval) == IF interval <= 0 THEN "cleanup" ELSE "pending"

\* line 251 returns, line 255 enters the while True loop, whatever the interval
AfterInitialCycle(interval) == "pending"

\* schedule.run_pending(): the job runs when now >= next_run, and next_run is
\* the last scheduling time plus the interval; a cycle or a sleep may last any
\* time, so a positive interval may or may not have elapsed
ShouldRun(interval) == IF interval <= 0 THEN {TRUE} ELSE BOOLEAN

\* KeyboardInterrupt is no Exception (line 226 lets it through); line 251 is
\* outside the try of lines 256-265, lines 257-258 are inside it
InterruptTarget(at) == IF at = "initial" THEN "crashed" ELSE "cleanup"

\* datetime.now(): not before the last reading
Now == {t \in clock..(clock + 1) : t <= MaxClock}

(* ------------------------------ ghost state --------------------------- *)
NoItem ==
  [url |-> NoStr, name |-> NoStr, target_price |-> None, price_selector |-> NoStr,
   name_selector |-> NoStr]

\* stage: how the call ended; html, current, read_ok, write_ok: what the
\* collaborators returned; the counters: what the call did; repeat: the row
\* written equals, timestamp aside, the row the table already held for the url
NoCheck ==
  [stage |-> "none", item |-> NoItem, html |-> NoStr, current |-> None,
   read_ok |-> TRUE, write_ok |-> TRUE, last_price |-> None, alert_needed |-> FALSE,
   fetches |-> 0, delays |-> 0, db_reads |-> 0, db_writes |-> 0, threads |-> 0,
   repeat |-> FALSE, phase |-> "none"]

\* failed: a call of this cycle ended at the fetch, extraction or store stage;
\* lost: a call of this cycle parsed a price, met no store fault, and wrote no row
NoCycle == [failed |-> FALSE, lost |-> FALSE]

CycleAfter(c) ==
  [failed |-> cyc.failed \/ c.stage \in {"fetch_failed", "parse_failed", "write_failed"}
                         \/ (c.db_reads = 1 /\ ~c.read_ok),
   lost   |-> cyc.lost \/ (c.current # None /\ c.read_ok /\ c.write_ok /\ c.db_writes = 0)]

\* the scenario of five cycles over one item
ScenarioItem ==
  [url |-> "A", name |-> "hint", target_price |-> 100, price_selector |-> "sel",
   name_selector |-> NoStr]
ScenarioPrices == <<120, 95, 95, 90, 95>>
RunDead == [n |-> -1, alerts |-> <<>>]

RunAfter(c) ==
  IF run.n = Len(ScenarioPrices) THEN run
  ELSE IF /\ run.n >= 0
          /\ c.stage \in {"alert_raised", "done"}
          /\ c.read_ok
          /\ c.current = ScenarioPrices[run.n + 1]
       THEN [n |-> run.n + 1, alerts |-> Append(run.alerts, c.alert_needed)]
       ELSE RunDead

(* -------------------------------- Init -------------------------------- *)
\* rows an earlier run of the program may have left in the table
PriorPrices == {90, 95}
PriorRows ==
  {r \in Rows : r.url = "A" /\ r.name = "hint" /\ r.target_price = 100
                /\ r.last_price \in PriorPrices /\ r.last_check_timestamp = 0}

Init ==
  /\ config_data \in [products : ProductLists, schedule_interval_minutes : Intervals]
  /\ db_connection = "none"
  /\ store \in {{}} \cup {{r} : r \in PriorRows}
  /\ clock = 0
  /\ pc = "start"
  /\ idx = 1
  /\ chk = NoCheck
  /\ cyc = NoCycle
  /\ run = IF config_data.products = <<ScenarioItem>> /\ store = {}
           THEN [n |-> 0, alerts |-> <<>>] ELSE RunDead
  /\ price_str = <<>>
  /\ cleaned_price = None

(* ------------------------------- actions ------------------------------ *)
\* initialize_db() raises sqlite3.Error: sys.exit(1)
InitializeDbFails ==
  /\ pc = "start"
  /\ pc' = "exited"
  /\ UNCHANGED <<config_data, db_connection, store, clock, idx, chk, cyc, run>>
  /\ UNCHANGED text_vars

\* initialize_db(); schedule.every(interval).minutes.do(...); run_price_checks() begins
Startup ==
  /\ pc = "start"
  /\ db_connection' = "open"
  /\ pc' = "initial"
  /\ idx' = 1
  /\ cyc' = NoCycle
  /\ UNCHANGED <<config_data, store, clock, chk, run>>
  /\ UNCHANGED text_vars

Finish(c, st, clk) ==
  /\ chk' = c
  /\ store' = st
  /\ clock' = clk
  /\ cyc' = CycleAfter(c)
  /\ run' = RunAfter(c)
  /\ idx' = idx + 1
  /\ UNCHANGED <<config_data, db_connection, pc>>
  /\ UNCHANGED text_vars

\* check_price(product_config), called and guarded by the loop of run_price_checks
CheckPrice ==
  /\ pc \in {"initial", "job"}
  /\ idx <= Len(config_data.products)
  /\ LET item == config_data.products[idx]
         base == [NoCheck EXCEPT !.item = item, !.phase = pc]
     IN
     IF MissingConfig(item)
     THEN Finish([base EXCEPT !.stage = "skipped"], store, clock)
     ELSE \E html \in fetch_html :
       LET c1 == [base EXCEPT !.html = html, !.fetches = 1, !.delays = 1] IN
       IF FetchFailed(html)
       THEN Finish([c1 EXCEPT !.stage = "fetch_failed"], store, clock)
       ELSE \E current_price \in parse_price :
         LET c2 == [c1 EXCEPT !.current = current_price] IN
         IF ParseFailed(current_price)
         THEN Finish([c2 EXCEPT !.stage = "parse_failed"], store, clock)
         ELSE \E parsed_name \in ParsedNames(item.name_selector), read_ok \in BOOLEAN :
           LET display_name == DisplayName(parsed_name, item.name)
               db_data == get_product_from_db(store, db_connection, item.url, read_ok)
               last_price == LastPriceOf(db_data)
               alert_needed == AlertNeeded(current_price, item.target_price, last_price)
               c3 == [c2 EXCEPT !.read_ok = read_ok, !.db_reads = 1,
                                !.last_price = last_price, !.alert_needed = alert_needed]
           IN
           IF alert_needed
           THEN \* line 202: NameError, caught at line 226; lines 206 and 210 are not reached
                Finish([c3 EXCEPT !.stage = "alert_raised"], store, clock)
           ELSE \E write_ok \in BOOLEAN, timestamp \in Now :
                Finish([c3 EXCEPT !.stage = IF write_ok THEN "done" ELSE "write_failed",
                                  !.write_ok = write_ok, !.db_writes = 1,
                                  !.repeat = \E r \in store :
                                     /\ r.url = item.url /\ r.name = display_name
                                     /\ r.target_price = item.target_price
                                     /\ r.last_price = current_price],
                       update_product_in_db(store, db_connection, item.url, display_name,
                                            item.target_price, current_price, timestamp,
                                            write_ok),
                       timestamp)

\* run_price_checks() returns (no products, or the for loop is over)
FinishCycle ==
  /\ pc \in {"initial", "job"}
  /\ idx > Len(config_data.products)
  /\ pc' = IF pc = "initial" THEN AfterInitialCycle(config_data.schedule_interval_minutes)
           ELSE "sleep"
  /\ UNCHANGED <<config_data, db_connection, store, clock, idx, chk, cyc, run>>
  /\ UNCHANGED text_vars

\* schedule.run_pending()
RunPending ==
  /\ pc = "pending"
  /\ \E due \in ShouldRun(config_data.schedule_interval_minutes) :
       IF due
       THEN /\ pc' = "job"
            /\ idx' = 1
            /\ cyc' = NoCycle
       ELSE /\ pc' = "sleep"
            /\ UNCHANGED <<idx, cyc>>
  /\ UNCHANGED <<config_data, db_connection, store, clock, chk, run>>
  /\ UNCHANGED text_vars

\* time.sleep(1)
Sleep ==
  /\ pc = "sleep"
  /\ pc' = "pending"
  /\ UNCHANGED <<config_data, db_connection, store, clock, idx, chk, cyc, run>>
  /\ UNCHANGED text_vars

\* Ctrl+C while main is in run_price_checks, run_pending or sleep
KeyboardInterrupt ==
  /\ pc \in {"initial", "pending", "job", "sleep"}
  /\ pc' = InterruptTarget(pc)
  /\ UNCHANGED <<config_data, db_connection, store, clock, idx, chk, cyc, run>>
  /\ UNCHANGED text_vars

\* if db_connection: db_connection.close()
Cleanup ==
  /\ pc = "cleanup"
  /\ db_connection' = IF db_connection = "open" THEN "closed" ELSE db_connection
  /\ pc' = "stopped"
  /\ UNCHANGED <<config_data, store, clock, idx, chk, cyc, run>>
  /\ UNCHANGED text_vars

Next ==
  \/ InitializeDbFails
  \/ Startup
  \/ CheckPrice
  \/ FinishCycle
  \/ RunPending
  \/ Sleep
  \/ KeyboardInterrupt
  \/ Cleanup

Spec == Init /\ [][Next]_vars

(* ------------------- scraper.clean_price_string ----------------------- *)
\* A text is a sequence of one-character strings.  The characters drawn: some
\* digits, the point, the symbols line 107 replaces ("$" and ","; the peso sign
\* is replaced the same way), a blank, and two characters only the pattern of
\* line 108 removes.
Digits == {"0", "1", "5"}
Alphabet == Digits \cup {".", ",", "$", " ", "-", "x"}
Texts == UNION {[1..n -> Alphabet] : n \in 0..MaxTextLen}

\* float(cleaned) raised ValueError
ValueError == -2

DigitValue(c) == IF c = "0" THEN 0 ELSE IF c = "1" THEN 1 ELSE 5

RECURSIVE DigitsValue(_)
\* the number a string of digits denotes (0 for the empty string)
DigitsValue(ds) ==
  IF ds = <<>> THEN 0
  ELSE 10 * DigitsValue(SubSeq(ds, 1, Len(ds) - 1)) + DigitValue(ds[Len(ds)])

RECURSIVE Pow10(_)
Pow10(n) == IF n = 0 THEN 1 ELSE 10 * Pow10(n - 1)

\* a text with a fraction has a point, so at most MaxTextLen - 1 fraction digits
FractionDigits == MaxTextLen - 1

\* a decimal is held as its value times 10^FractionDigits, an integer
Decimal(int_digits, frac_digits) ==
  DigitsValue(int_digits) * Pow10(FractionDigits)
    + DigitsValue(frac_digits) * Pow10(FractionDigits - Len(frac_digits))

\* str.replace(ch, '')
Replace(text, ch) == SelectSeq(text, LAMBDA c : c # ch)

\* str.strip()
Strip(text) ==
  LET solid == {i \in 1..Len(text) : text[i] # " "} IN
  IF solid = {} THEN <<>>
  ELSE SubSeq(text, CHOOSE i \in solid : \A j \in solid : i <= j,
                    CHOOSE i \in solid : \A j \in solid : i >= j)

\* re.sub(r"[^0-9.]", "", price_str)
SubNonNumeric(text) == SelectSeq(text, LAMBDA c : c \in Digits \cup {"."})

RECURSIVE Split(_)
\* cleaned.split('.')
Split(text) ==
  LET points == {i \in 1..Len(text) : text[i] = "."} IN
  IF points = {} THEN <<text>>
  ELSE LET p == CHOOSE i \in points : \A j \in points : i <= j
       IN <<SubSeq(text, 1, p - 1)>> \o Split(SubSeq(text, p + 1, Len(text)))

\* a text with several points is left as it is
KeepFirstGroup_Not(cleaned) == cleaned

\* lines 109-113: parts[0] + '.' + parts[1] when there are more than two parts
KeepFirstGroup(cleaned) ==
  LET parts == Split(cleaned) IN
  IF Len(parts) > 2 THEN parts[1] \o <<".">> \o parts[2]
  ELSE IF Len(parts) = 1 THEN parts[1]
  ELSE cleaned

\* float(text), for a text of digits and points: digits with at most one point
\* and at least one digit, else ValueError
Float(text) ==
  LET parts == Split(text) IN
  IF Len(parts) = 1
  THEN IF parts[1] = <<>> THEN ValueError ELSE Decimal(parts[1], <<>>)
  ELSE IF Len(parts) = 2 /\ (parts[1] # <<>> \/ parts[2] # <<>>)
       THEN Decimal(parts[1], parts[2])
       ELSE ValueError

\* except (ValueError, TypeError): return None
ExceptValueError(result) == IF result = ValueError THEN None ELSE result

\* clean_price_string(price_str), price_str a string
clean_price_string(text) ==
  LET stripped == Strip(Replace(Replace(text, "$"), ","))
      cleaned == KeepFirstGroup(SubNonNumeric(stripped))
  IN ExceptValueError(IF cleaned = <<>> THEN None ELSE Float(cleaned))

\* a raw price text, before clean_price_string is called on it
InitClean ==
  /\ config_data = [products |-> <<>>, schedule_interval_minutes |-> 60]
  /\ db_connection = "none"
  /\ store = {}
  /\ clock = 0
  /\ pc = "parse_price"
  /\ idx = 1
  /\ chk = NoCheck
  /\ cyc = NoCycle
  /\ run = RunDead
  /\ price_str \in Texts
  /\ cleaned_price = None

\* parse_price: cleaned_price = clean_price_string(price_text)
CleanPriceString ==
  /\ pc = "parse_price"
  /\ cleaned_price' = clean_price_string(price_str)
  /\ pc' = "cleaned"
  /\ UNCHANGED <<config_data, db_connection, store, clock, idx, chk, cyc, run, price_str>>

NextClean == CleanPriceString

SpecClean == InitClean /\ [][NextClean]_vars

(* ============================== claims ================================ *)
\* a step that is one call of check_price
CheckStep == idx' = idx + 1
\* the call fetched the page and parsed a price
Parsed(c) == c.fetches = 1 /\ c.html # NoStr /\ c.current # None
RowsOf(st, url) == {r \in st : r.url = url}

\* C1 (as amended): for every check that parsed a price, the alert decision is
\* true exactly when current < target and the store read gave no last price
\* (no row for the url, or the read failed) or current < the stored last price.
C1_AlertIffStrictlyBelow ==
  [][ (CheckStep /\ Parsed(chk')) =>
        (chk'.alert_needed <=>
           /\ chk'.current < chk'.item.target_price
           /\ \/ ~chk'.read_ok
              \/ \A r \in RowsOf(store, chk'.item.url) : chk'.current < r.last_price) ]_vars

\* C1 witness: an alert decided against a stored, higher last price
C1_Witness ==
  /\ Parsed(chk) /\ chk.alert_needed /\ chk.read_ok
  /\ chk.last_price # None /\ chk.current < chk.last_price

\* C1 as stated: the alert is decided exactly when current <= target and no last
\* price is stored for the url or current <= the stored last price.
C1_AlertIffAtOrBelow ==
  [][ (CheckStep /\ Parsed(chk') /\ chk'.read_ok) =>
        (chk'.alert_needed <=>
           /\ chk'.current <= chk'.item.target_price
           /\ \A r \in RowsOf(store, chk'.item.url) : chk'.current <= r.last_price) ]_vars

\* C2 as stated: one item with target 100, an empty store, five cycles parsing
\* 120, 95, 95, 90, 95 give the alert decisions false, true, true, true, false.
C2_ScenarioAlerts ==
  run.n = Len(ScenarioPrices) => run.alerts = <<FALSE, TRUE, TRUE, TRUE, FALSE>>

\* C3 as stated: after every check that fetched the page and parsed a price (and
\* whose store write did not fail), the row of the url holds the price just
\* parsed and the item's target, alert or no alert.
C3_ParsedCheckIsPersisted ==
  (Parsed(chk) /\ chk.stage # "write_failed") =>
     \E r \in store : /\ r.url = chk.item.url
                      /\ r.last_price = chk.current
                      /\ r.target_price = chk.item.target_price

\* C4 as stated: at the end of a cycle in which some item failed at the fetch,
\* extraction or store stage, every item was checked and no other item that
\* parsed a price is left without its row written.
C4_FailureIsolation ==
  (pc \in {"initial", "job"} /\ idx > Len(config_data.products) /\ cyc.failed)
     => ~cyc.lost

\* C5: a check whose fetch returns no markup, or whose price cannot be parsed,
\* reads and writes no row, starts no notification and leaves the table as it was.
C5_AbortedCheckLeavesStore ==
  [][ (CheckStep /\ chk'.fetches = 1 /\ (chk'.html = NoStr \/ chk'.current = None)) =>
        /\ store' = store
        /\ chk'.db_reads = 0 /\ chk'.db_writes = 0 /\ chk'.threads = 0 ]_vars

\* C5 witness: the price of an item that has a row could not be parsed
C5_Witness ==
  /\ chk.stage = "parse_failed" /\ chk.html # NoStr
  /\ RowsOf(store, chk.item.url) # {}

\* C6: the check of an item without url, target_price or price_selector fetches
\* nothing, waits for no pacing delay, touches no row, starts no notification,
\* and the cycle goes on with the next item.
C6_SkippedItemTouchesNothing ==
  [][ (CheckStep /\ LET item == config_data.products[idx]
                    IN item.url = NoStr \/ item.target_price = None
                       \/ item.price_selector = NoStr) =>
        /\ chk'.fetches = 0 /\ chk'.delays = 0
        /\ chk'.db_reads = 0 /\ chk'.db_writes = 0 /\ chk'.threads = 0
        /\ store' = store /\ clock' = clock /\ db_connection' = db_connection
        /\ pc' = pc ]_vars

\* C6 witness: an item without price_selector was skipped and the next item of
\* the list is still to be checked
C6_Witness ==
  /\ chk.stage = "skipped" /\ chk.item.price_selector = NoStr
  /\ chk.item.url # NoStr /\ chk.item.target_price = 100
  /\ pc \in {"initial", "job"} /\ idx = 2 /\ Len(config_data.products) = 2

\* C7 as stated: whenever a check decides an alert, the notification is started
\* and the row of the item is still written in the same check.
C7_AlertStillUpserts ==
  chk.alert_needed => (chk.threads = 1 /\ chk.db_writes = 1)

StripTimestamp(st) ==
  {[url |-> r.url, name |-> r.name, target_price |-> r.target_price,
    last_price |-> r.last_price] : r \in st}

\* the table holds the row an upsert of the observation of check c leaves
HoldsObservation(st, c) ==
  \E r \in st : /\ r.url = c.item.url
                /\ r.name = DisplayName(NoStr, c.item.name)
                /\ r.target_price = c.item.target_price
                /\ r.last_price = c.current

\* C8 (as amended): an upsert of the observation the table already holds for the
\* url leaves every row as it was in every field but last_check_timestamp, and
\* the table holds exactly one row for that url.
C8_UpsertIdempotentButTimestamp ==
  [][ (CheckStep /\ chk'.stage = "done" /\ HoldsObservation(store, chk')) =>
        /\ StripTimestamp(store') = StripTimestamp(store)
        /\ Cardinality(RowsOf(store', chk'.item.url)) = 1
        /\ Cardinality(RowsOf(store, chk'.item.url)) = 1 ]_vars

\* C8 witness: the same observation was written a second time, at a later time
C8_Witness ==
  /\ chk.stage = "done" /\ chk.repeat
  /\ \E r \in store : r.url = chk.item.url /\ r.last_check_timestamp > 0

\* C8 as stated: the second upsert of the same observation leaves the table
\* identical in every field, last_check_timestamp included.
C8_UpsertIdempotent ==
  [][ (CheckStep /\ chk'.stage = "done" /\ HoldsObservation(store, chk')) =>
        store' = store ]_vars

LoopPcs == {"pending", "job", "sleep"}

\* C9 (as amended): the first cycle starts at startup before any periodic wait,
\* and, whatever the interval, main enters the periodic loop when the first
\* cycle is over and leaves the loop only for the cleanup after an interrupt.
C9_LoopWhateverTheInterval ==
  [][ /\ (pc = "start" => pc' \in {"initial", "exited"})
      /\ (pc' = "sleep" => pc \in LoopPcs)
      /\ ((pc = "initial" /\ pc' \notin {"initial", "crashed"}) => pc' = "pending")
      /\ ((pc \in LoopPcs /\ pc' \notin LoopPcs) => pc' = "cleanup") ]_vars

\* C9 witness: with a non-positive interval a second cycle is running
C9_Witness ==
  config_data.schedule_interval_minutes <= 0 /\ pc = "job" /\ idx > 1

\* C9 as stated: with a non-positive interval the program never enters the
\* periodic loop.
C9_OneShotWhenNonPositive ==
  config_data.schedule_interval_minutes <= 0 => pc \notin LoopPcs

\* C10 as stated: once the store is open, main ends only with the store
\* connection closed.
C10_ExitClosesStore ==
  pc \in {"stopped", "crashed"} => db_connection = "closed"

(* ----------------------------- C11 ------------------------------------ *)
Numeric(text) == SelectSeq(text, LAMBDA c : c \in Digits \cup {"."})
PointsOf(text) == {i \in 1..Len(text) : text[i] = "."}
\* the position of the k-th point of text, or one past its end
PointAt(text, k) ==
  IF Cardinality(PointsOf(text)) < k THEN Len(text) + 1
  ELSE CHOOSE i \in PointsOf(text) : Cardinality({j \in PointsOf(text) : j <= i}) = k
IntegerPart(text) == SubSeq(Numeric(text), 1, PointAt(Numeric(text), 1) - 1)
FirstFraction(text) ==
  SubSeq(Numeric(text), PointAt(Numeric(text), 1) + 1, PointAt(Numeric(text), 2) - 1)

\* C11: for every raw price text, clean_price_string raises nothing and returns
\* None when the digits and points of the text leave no digit in the integer
\* part and the first fractional group, and otherwise the decimal made of that
\* integer part and that first fractional group.
C11_NormalizeValue ==
  pc = "cleaned" =>
    /\ cleaned_price # ValueError
    /\ cleaned_price =
         IF IntegerPart(price_str) = <<>> /\ FirstFraction(price_str) = <<>>
         THEN None
         ELSE DigitsValue(IntegerPart(price_str)) * Pow10(FractionDigits)
                + DigitsValue(FirstFraction(price_str))
                    * Pow10(FractionDigits - Len(FirstFraction(price_str)))

\* C11 witness: "1.5." has two points and gives 1.5
C11_Witness ==
  /\ pc = "cleaned" /\ price_str = <<"1", ".", "5", ".">>
  /\ cleaned_price = 15 * Pow10(FractionDigits - 1)

(* ----------------------------- C12 ------------------------------------ *)
\* C12 as stated: when the store read of a check that parsed a price fails, the
\* prior observation counts as absent, the alert is decided on current against
\* target alone, and the upsert of the new observation is still attempted.
C12_ReadFailureStillUpserts ==
  (Parsed(chk) /\ ~chk.read_ok) =>
     /\ chk.last_price = None
     /\ (chk.alert_needed <=> chk.current < chk.item.target_price)
     /\ chk.db_writes = 1

(* ----------------------------- C13 ------------------------------------ *)
\* C13 as stated: an item is skipped only when its url, target_price or
\* price_selector is absent; an item that supplies all three, a target_price
\* of 0 included, is fetched and checked.
C13_SkippedOnlyWhenAbsent ==
  chk.stage = "skipped" =>
     \/ chk.item.url = NoStr
     \/ chk.item.target_price = None
     \/ chk.item.price_selector = NoStr

====
